---- MODULE Spec2Model ----
(***************************************************************************)
(* PortfolioStockTracker: the transaction ledger (transaction.py), the     *)
(* replay engine (portfolio.py) and the file store (data_store.py).        *)
(*                                                                         *)
(* Python floats are modelled as exact rationals <<n, d>> in lowest terms  *)
(* with d > 0; rounding is not modelled.                                   *)
(***************************************************************************)
EXTENDS Integers, Sequences, FiniteSets, TLC

VARIABLES
    name,            \* Portfolio.name
    transactions,    \* Portfolio.transactions, in insertion order
    stocks,          \* Portfolio.stocks: ticker -> Stock
    now,             \* the clock datetime.now() reads, in microseconds
    portfolio_file,  \* the content of DataStore.portfolio_file on disk
    load_result,     \* how the last DataStore.load_portfolio() call ended
    calls,           \* the query calls made since the last mutation, with results
    cli_output,      \* what the last PortfolioCLI command printed
    investments,     \* the investments table of investment.db: its rows by
                     \* id, and the last id AUTOINCREMENT gave out
    session,         \* the Flask session: None or Some(user_id)
    response         \* what the last web request returned

vars == <<name, transactions, stocks, now, portfolio_file, load_result,
          calls, cli_output, investments, session, response>>

(***************************************************************************)
(* Bounds of the model.                                                    *)
(***************************************************************************)
MaxLen == 3          \* ledger length under Spec
MaxLenAny == 2       \* ledger length under SpecAny
MaxLenStore == 2     \* ledger length under SpecStore
MaxLenQuery == 2     \* ledger length under SpecQuery
MaxCalls == 2        \* query calls between two mutations under SpecQuery
MaxLenClock == 3     \* ledger length under SpecClock
MaxRows == 2         \* investments rows ever inserted under SpecWeb
MaxLenCli == 3       \* ledger length under SpecCli
MaxLenSellOut == 4   \* ledger length under SpecSellOut

TickerInputs == {"aapl", "AAPL", "MSFT"}     \* ticker arguments, any case
ValidQuantities == {1, 2}                     \* positive quantities
ValidPrices == {1, 2}                         \* positive prices
AnyQuantities == {-1, 0, 1, 2}                \* what a caller may pass
AnyPrices == {0, 1, 2}
StoreTickerInputs == {"aapl"}                 \* ticker arguments under SpecStore
QueryTickerInputs == {"aapl", "MSFT"}         \* ticker arguments under SpecQuery
SellOutTickerInputs == {"AAPL", "MSFT"}       \* ticker arguments under SpecSellOut
QueryPrices == {2}                            \* prices under SpecQuery
ClockQuantities == {1}                        \* quantities under SpecClock
DateInputs == {<<>>, <<0>>, <<1000000>>}      \* date arguments: None or a datetime
CliQuantities == {<<0, 0>>, <<0, 1>>, <<1, 1>>, <<2, 1>>}  \* "nan", "0", "1", "2"
CliPrices == {<<0, 1>>, <<1, 1>>}             \* "0", "1"
CliAmounts == {<<0, 0>>, <<0, 1>>, <<3, 1>>}  \* "nan", "0", "3"
CliNames == {"", "Apple Inc."}                \* company name, or Enter to skip
Users == {1, 2}                               \* ids of the registered users
Symbols == {"AAPL", "XXXX"}                   \* symbols typed into the form
FormQuantities == {1, 2}                      \* quantities typed into the form
FormPrices == {3}                             \* buy prices typed into the form
LookupOutcomes == {<<>>, <<5>>}               \* the price lookup raises, or a price

(***************************************************************************)
(* Exact arithmetic on the values Python holds as floats.                  *)
(***************************************************************************)
Abs(n) == IF n < 0 THEN -n ELSE n

RECURSIVE GCD(_, _)
GCD(a, b) == IF b = 0 THEN a ELSE GCD(b, a % b)

Norm(n, d) ==
    IF d = 0 THEN <<0, 0>>
    ELSE LET g == GCD(Abs(n), Abs(d))
             s == IF d < 0 THEN -1 ELSE 1
         IN  <<(s * n) \div g, (s * d) \div g>>

ToFloat(n) == <<n, 1>>                        \* float(n) of an integer n
Zero == <<0, 1>>                              \* 0.0
RAdd(a, b) == Norm(a[1] * b[2] + b[1] * a[2], a[2] * b[2])
RSub(a, b) == Norm(a[1] * b[2] - b[1] * a[2], a[2] * b[2])
RMul(a, b) == Norm(a[1] * b[1], a[2] * b[2])
RDiv(a, b) == Norm(a[1] * b[2], a[2] * b[1])  \* b # 0.0
RGt(a, b) == a[1] * b[2] > b[1] * a[2]
NaN == <<0, 0>>                               \* float('nan'): every comparison is false
IsNaN(a) == a[2] = 0
RLe(a, b) == ~IsNaN(a) /\ ~IsNaN(b) /\ a[1] * b[2] <= b[1] * a[2]

(***************************************************************************)
(* str.upper() on the strings of the model.                                *)
(***************************************************************************)
Upper(s) ==
    CASE s = "aapl" -> "AAPL"
      [] s = "msft" -> "MSFT"
      [] OTHER -> s

(***************************************************************************)
(* transaction.py                                                          *)
(***************************************************************************)
TransactionType == {"BUY", "SELL", "DIVIDEND"}

\* Transaction._generate_id: f"{ticker}_{date:%Y%m%d%H%M%S%f}"
GenerateId(ticker, date) == <<ticker, date>>

\* None, for the optional arguments: an argument is <<>> (None) or <<value>>
None == <<>>
Some(v) == <<v>>

\* Transaction.__init__: nothing is validated. quantity and price are already
\* floats here (see ToFloat); "date or now()" takes the clock for None, and
\* "transaction_id or _generate_id()" generates for None and for the empty
\* string, which is <<>> among the id strings.
Transaction(ticker, transaction_type, quantity, price, date, transaction_id) ==
    LET d == IF date = None THEN now ELSE date[1] IN
    [ ticker |-> Upper(ticker),
      transaction_type |-> transaction_type,
      quantity |-> quantity,
      price |-> price,
      date |-> d,
      transaction_id |->
          IF transaction_id = None \/ transaction_id[1] = <<>>
          THEN GenerateId(Upper(ticker), d)
          ELSE transaction_id[1] ]

\* Transaction.total_value
\* variant: the worth of a transaction taken to be its unit price
TotalValueUnitPrice(t) == t.price

TotalValue(t) == RMul(t.quantity, t.price)

(***************************************************************************)
(* portfolio.py                                                            *)
(***************************************************************************)
\* Stock.__init__: name = name or ticker ("" is the missing name)
Stock(ticker, stock_name) ==
    [ ticker |-> Upper(ticker),
      name |-> IF stock_name = "" THEN ticker ELSE stock_name ]

\* Holding.__init__
Holding(ticker, quantity, average_cost) ==
    [ ticker |-> Upper(ticker), quantity |-> quantity, average_cost |-> average_cost ]

\* Holding.total_cost
\* variant: the average cost of one share
HoldingTotalCostPerShare(h) == h.average_cost

HoldingTotalCost(h) == RMul(h.quantity, h.average_cost)

\* defaultdict(lambda: {'quantity': 0.0, 'total_cost': 0.0})
NewEntry == [quantity |-> Zero, total_cost |-> Zero]
Entry(d, k) == IF k \in DOMAIN d THEN d[k] ELSE NewEntry
Put(d, k, e) == [x \in DOMAIN d \cup {k} |-> IF x = k THEN e ELSE d[x]]

\* One iteration of the loop of get_holdings.
\* variant: the cost is reduced by the proceeds of the sale
SellEntryAtSalePrice(e, t) ==
    [ quantity |-> RSub(e.quantity, t.quantity),
      total_cost |-> IF RGt(e.quantity, Zero)
                     THEN RSub(e.total_cost, TotalValue(t)) ELSE e.total_cost ]

\* variant: a sale takes shares away and leaves the cost where it was
SellEntryKeepingCost(e, t) ==
    [ quantity |-> RSub(e.quantity, t.quantity), total_cost |-> e.total_cost ]

\* The SELL branch of the loop of get_holdings, on the entry e of the ticker.
SellEntry(e, t) ==
    LET current_qty == e.quantity
        tc == IF RGt(current_qty, Zero)
              THEN RSub(e.total_cost,
                        RMul(RDiv(e.total_cost, current_qty), t.quantity))
              ELSE e.total_cost
    IN  [ quantity |-> RSub(e.quantity, t.quantity), total_cost |-> tc ]

\* The BUY branch of the loop of get_holdings.
BuyEntry(e, t) ==
    [ quantity |-> RAdd(e.quantity, t.quantity),
      total_cost |-> RAdd(e.total_cost, TotalValue(t)) ]

\* variant: a DIVIDEND is counted like a BUY
HoldingsStepCountingDividends(d, t) ==
    LET e == Entry(d, t.ticker) IN
    CASE t.transaction_type = "SELL" -> Put(d, t.ticker, SellEntry(e, t))
      [] OTHER -> Put(d, t.ticker, BuyEntry(e, t))

HoldingsStep(d, t) ==
    LET e == Entry(d, t.ticker) IN
    CASE t.transaction_type = "BUY" -> Put(d, t.ticker, BuyEntry(e, t))
      [] t.transaction_type = "SELL" -> Put(d, t.ticker, SellEntry(e, t))
      [] OTHER -> d

\* holdings_data after the loop of get_holdings over the ledger txs.
RECURSIVE HoldingsData(_)
HoldingsData(txs) ==
    IF txs = <<>> THEN [k \in {} |-> NewEntry]
    ELSE HoldingsStep(HoldingsData(SubSeq(txs, 1, Len(txs) - 1)), txs[Len(txs)])

\* variant: every ticker of holdings_data is reported, sold out or not
GetHoldingsUnfiltered(txs) ==
    LET d == HoldingsData(txs) IN
    [ k \in DOMAIN d |->
        Holding(k, d[k].quantity,
                IF RGt(d[k].quantity, Zero)
                THEN RDiv(d[k].total_cost, d[k].quantity) ELSE Zero) ]

\* Portfolio.get_holdings
GetHoldings(txs) ==
    LET d == HoldingsData(txs) IN
    [ k \in {x \in DOMAIN d : RGt(d[x].quantity, Zero)} |->
        Holding(k, d[k].quantity,
                IF RGt(d[k].quantity, Zero)
                THEN RDiv(d[k].total_cost, d[k].quantity) ELSE Zero) ]

\* variant: the cost of the whole holding is charged to the sale
CostBasisOfHolding(e, t) == e.total_cost

\* cost_basis of a sale in get_realized_gains, on the entry e of the ticker
CostBasis(e, t) ==
    LET avg_cost == RDiv(e.total_cost, e.quantity) IN RMul(avg_cost, t.quantity)

\* variant: the proceeds are booked as gain and the quantity goes below zero
SaleOfNothingBooked(s, t, e) ==
    [ realized_gains |-> RAdd(s.realized_gains, TotalValue(t)),
      tracker |-> Put(s.tracker, t.ticker,
                      [ quantity |-> RSub(e.quantity, t.quantity),
                        total_cost |-> e.total_cost ]) ]

\* A SELL in get_realized_gains when holdings_tracker has no positive
\* quantity of the ticker: the lookup creates the entry, nothing else changes.
SaleOfNothing(s, t, e) == [ s EXCEPT !.tracker = Put(s.tracker, t.ticker, e) ]

\* One iteration of the loop of get_realized_gains.
GainsStep(s, t) ==
    LET e == Entry(s.tracker, t.ticker) IN
    CASE t.transaction_type = "BUY" ->
            [ s EXCEPT !.tracker =
                Put(s.tracker, t.ticker,
                    [ quantity |-> RAdd(e.quantity, t.quantity),
                      total_cost |-> RAdd(e.total_cost, TotalValue(t)) ]) ]
      [] t.transaction_type = "SELL" ->
            IF RGt(e.quantity, Zero)
            THEN LET cost_basis == CostBasis(e, t)
                     sale_value == TotalValue(t)
                 IN  [ realized_gains |->
                           RAdd(s.realized_gains, RSub(sale_value, cost_basis)),
                       tracker |->
                           Put(s.tracker, t.ticker,
                               [ quantity |-> RSub(e.quantity, t.quantity),
                                 total_cost |-> RSub(e.total_cost, cost_basis) ]) ]
            ELSE SaleOfNothing(s, t, e)
      [] OTHER -> s

\* realized_gains and holdings_tracker after the loop of get_realized_gains.
RECURSIVE GainsState(_)
GainsState(txs) ==
    IF txs = <<>> THEN [realized_gains |-> Zero, tracker |-> [k \in {} |-> NewEntry]]
    ELSE GainsStep(GainsState(SubSeq(txs, 1, Len(txs) - 1)), txs[Len(txs)])

\* Portfolio.get_realized_gains
GetRealizedGains(txs) == GainsState(txs).realized_gains

\* Portfolio.get_dividend_income
RECURSIVE GetDividendIncome(_)
GetDividendIncome(txs) ==
    IF txs = <<>> THEN Zero
    ELSE LET t == txs[1]
             rest == GetDividendIncome(Tail(txs))
         IN  IF t.transaction_type = "DIVIDEND" THEN RAdd(TotalValue(t), rest) ELSE rest

\* variant: the argument is compared as given
GetTransactionsByTickerAsGiven(txs, ticker) ==
    SelectSeq(txs, LAMBDA t : t.ticker = ticker)

\* Portfolio.get_transactions_by_ticker
GetTransactionsByTicker(txs, ticker) ==
    SelectSeq(txs, LAMBDA t : t.ticker = Upper(ticker))

\* Holding.to_dict
HoldingToDict(h) ==
    [ ticker |-> h.ticker, quantity |-> h.quantity,
      average_cost |-> h.average_cost, total_cost |-> HoldingTotalCost(h) ]

\* sum(h.total_cost for h in holdings.values())
RECURSIVE SumTotalCost(_, _)
SumTotalCost(holdings, keys) ==
    IF keys = {} THEN Zero
    ELSE LET k == CHOOSE x \in keys : TRUE
         IN  RAdd(HoldingTotalCost(holdings[k]), SumTotalCost(holdings, keys \ {k}))

\* Portfolio.get_portfolio_summary
GetPortfolioSummary(n, txs) ==
    LET holdings == GetHoldings(txs) IN
    [ name |-> n,
      total_holdings |-> Cardinality(DOMAIN holdings),
      total_cost_basis |-> SumTotalCost(holdings, DOMAIN holdings),
      realized_gains |-> GetRealizedGains(txs),
      dividend_income |-> GetDividendIncome(txs),
      total_transactions |-> Len(txs),
      holdings |-> [k \in DOMAIN holdings |-> HoldingToDict(holdings[k])] ]

\* Portfolio.add_transaction: the new ledger and the new registry.
AddTransactionLedger(txs, t) == Append(txs, t)
\* variant: the entry of the ticker is written on every call
AddTransactionStocksOverwriting(st, t) ==
    [x \in DOMAIN st \cup {t.ticker} |->
        IF x = t.ticker THEN Stock(t.ticker, "") ELSE st[x]]

AddTransactionStocks(st, t) ==
    IF t.ticker \notin DOMAIN st
    THEN [x \in DOMAIN st \cup {t.ticker} |->
            IF x = t.ticker THEN Stock(t.ticker, "") ELSE st[x]]
    ELSE st

\* Portfolio.add_stock
AddStockRegistry(st, stock) ==
    [x \in DOMAIN st \cup {stock.ticker} |-> IF x = stock.ticker THEN stock ELSE st[x]]

(***************************************************************************)
(* Serialization. A Python/JSON value carries its type: a dict, a list, a  *)
(* str or a float. ISO date strings are <<seconds>> or <<seconds, micros>> *)
(* (isoformat() leaves out a zero microsecond part); <<>> is a string that *)
(* is no date.                                                             *)
(***************************************************************************)
JObj(f) == [j |-> "object", v |-> f]
JArr(q) == [j |-> "array", v |-> q]
JStr(x) == [j |-> "string", v |-> x]
JNum(r) == [j |-> "number", v |-> r]

MicrosPerSecond == 1000000

\* datetime.isoformat()
IsoFormat(d) ==
    IF d % MicrosPerSecond = 0
    THEN <<d \div MicrosPerSecond>>
    ELSE <<d \div MicrosPerSecond, d % MicrosPerSecond>>

\* datetime.fromisoformat(): the strings it accepts, and what it returns
IsIsoDate(x) == Len(x) \in {1, 2}
FromIsoFormat(x) ==
    IF Len(x) = 1 THEN x[1] * MicrosPerSecond ELSE x[1] * MicrosPerSecond + x[2]

\* an exception, or the value returned
Raise(e) == [exc |-> e]
Return(x) == [exc |-> "", value |-> x]

\* variant: the price field carries the total of the transaction
TransactionToDictTotalAsPrice(t) ==
    JObj([ transaction_id |-> JStr(t.transaction_id),
           ticker |-> JStr(t.ticker),
           transaction_type |-> JStr(t.transaction_type),
           quantity |-> JNum(t.quantity),
           price |-> JNum(TotalValue(t)),
           date |-> JStr(IsoFormat(t.date)),
           total_value |-> JNum(TotalValue(t)) ])

\* Transaction.to_dict
TransactionToDict(t) ==
    JObj([ transaction_id |-> JStr(t.transaction_id),
           ticker |-> JStr(t.ticker),
           transaction_type |-> JStr(t.transaction_type),
           quantity |-> JNum(t.quantity),
           price |-> JNum(t.price),
           date |-> JStr(IsoFormat(t.date)),
           total_value |-> JNum(TotalValue(t)) ])

\* float(x) in Transaction.__init__: the exception it raises, "" for none
FloatError(x) ==
    CASE x.j = "number" -> ""
      [] x.j = "string" -> "ValueError"
      [] OTHER -> "TypeError"

\* variant: the price is what the stored total_value gives per share
PriceReadFromTotal(d) ==
    IF "total_value" \in DOMAIN d /\ d.total_value.j = "number" /\ d.quantity.v # Zero
    THEN RDiv(d.total_value.v, d.quantity.v) ELSE d.price.v

\* price=data['price'] in Transaction.from_dict
PriceRead(d) == d.price.v

\* Transaction.from_dict: the arguments are evaluated in order, then __init__
\* runs; the first exception ends it. total_value is not read.
TransactionFromDict(data) ==
    IF data.j # "object" THEN Raise("TypeError")
    ELSE LET d == data.v IN
    IF "ticker" \notin DOMAIN d THEN Raise("KeyError")
    ELSE IF "transaction_type" \notin DOMAIN d THEN Raise("KeyError")
    ELSE IF ~(d.transaction_type.j = "string" /\ d.transaction_type.v \in TransactionType)
         THEN Raise("ValueError")
    ELSE IF "quantity" \notin DOMAIN d THEN Raise("KeyError")
    ELSE IF "price" \notin DOMAIN d THEN Raise("KeyError")
    ELSE IF "date" \notin DOMAIN d THEN Raise("KeyError")
    ELSE IF d.date.j # "string" THEN Raise("TypeError")
    ELSE IF ~IsIsoDate(d.date.v) THEN Raise("ValueError")
    ELSE IF d.ticker.j # "string" THEN Raise("AttributeError")
    ELSE IF FloatError(d.quantity) # "" THEN Raise(FloatError(d.quantity))
    ELSE IF FloatError(d.price) # "" THEN Raise(FloatError(d.price))
    ELSE Return(Transaction(d.ticker.v, d.transaction_type.v,
                            d.quantity.v, PriceRead(d),
                            Some(FromIsoFormat(d.date.v)),
                            IF "transaction_id" \in DOMAIN d
                            THEN Some(d.transaction_id.v) ELSE None))

\* Stock.to_dict
StockToDict(st) == JObj([ticker |-> JStr(st.ticker), name |-> JStr(st.name)])

\* Stock.from_dict
StockFromDict(data) ==
    IF data.j # "object" THEN Raise("TypeError")
    ELSE IF "ticker" \notin DOMAIN data.v THEN Raise("KeyError")
    ELSE IF data.v.ticker.j # "string" THEN Raise("AttributeError")
    ELSE Return(Stock(data.v.ticker.v,
                      IF "name" \in DOMAIN data.v THEN data.v.name.v ELSE ""))

\* Portfolio.to_dict
PortfolioToDict(n, st, txs) ==
    JObj([ name |-> JStr(n),
           stocks |-> JObj([k \in DOMAIN st |-> StockToDict(st[k])]),
           transactions |-> JArr([i \in 1..Len(txs) |-> TransactionToDict(txs[i])]) ])

\* the loop over data['transactions'] of Portfolio.from_dict, up to entry n:
\* the ledger loaded, or the first exception
RECURSIVE LoadTransactions(_, _)
LoadTransactions(items, n) ==
    IF n = 0 THEN Return(<<>>)
    ELSE LET before == LoadTransactions(items, n - 1) IN
         IF before.exc # "" THEN before
         ELSE LET t == TransactionFromDict(items[n]) IN
              IF t.exc # "" THEN t ELSE Return(Append(before.value, t.value))

\* Portfolio.from_dict. A dict is iterated in the order of the file; the model
\* keeps no order among the stocks, and takes the exception of any failing one.
\* Iterating a value that is no list ends in TypeError (a number is not
\* iterable, the keys of a dict are no transaction records).
PortfolioFromDict(data) ==
    IF data.j # "object" THEN Raise("AttributeError")
    ELSE LET d == data.v
             n == IF "name" \in DOMAIN d THEN d.name.v ELSE "My Portfolio"
             sd == IF "stocks" \in DOMAIN d THEN d.stocks ELSE JObj([k \in {} |-> 0])
             td == IF "transactions" \in DOMAIN d THEN d.transactions ELSE JArr(<<>>)
         IN
    IF sd.j # "object" THEN Raise("AttributeError")
    ELSE LET failed == {k \in DOMAIN sd.v : StockFromDict(sd.v[k]).exc # ""} IN
    IF failed # {} THEN StockFromDict(sd.v[CHOOSE k \in failed : TRUE])
    ELSE IF td.j # "array" THEN Raise("TypeError")
    ELSE LET txs == LoadTransactions(td.v, Len(td.v)) IN
    IF txs.exc # "" THEN txs
    ELSE Return([ name |-> n,
                  stocks |-> [k \in DOMAIN sd.v |-> StockFromDict(sd.v[k]).value],
                  transactions |-> txs.value ])

(***************************************************************************)
(* data_store.py. The file is absent, holds text that is no JSON, or holds *)
(* the text of a JSON value.                                               *)
(***************************************************************************)
FileAbsent == [kind |-> "absent"]
FileInvalid == [kind |-> "invalid"]
FileJson(value) == [kind |-> "json", value |-> value]

\* json.dump(data, f): what save_portfolio writes
JsonDump(data) == FileJson(data)

\* json.load(f)
JsonLoad(file) ==
    IF file.kind = "json" THEN Return(file.value) ELSE Raise("JSONDecodeError")

\* DataStore.load_portfolio: None, a Portfolio, or the exception it lets through
LoadPortfolio(file) ==
    IF file.kind = "absent" THEN [outcome |-> "none"]
    ELSE LET data == JsonLoad(file)
             r == IF data.exc # "" THEN data ELSE PortfolioFromDict(data.value)
         IN  IF r.exc = "" THEN [outcome |-> "portfolio", portfolio |-> r.value]
             ELSE IF r.exc \in {"JSONDecodeError", "KeyError"}
                  THEN [outcome |-> "none"]
             ELSE [outcome |-> "raised", exc |-> r.exc]

(***************************************************************************)
(* Edits of a snapshot made outside the program.                           *)
(***************************************************************************)
\* equality of two JSON values, by type first
RECURSIVE JsonEq(_, _)
JsonEq(a, b) ==
    /\ a.j = b.j
    /\ CASE a.j = "object" ->
                /\ DOMAIN a.v = DOMAIN b.v
                /\ \A k \in DOMAIN a.v : JsonEq(a.v[k], b.v[k])
         [] a.j = "array" ->
                /\ Len(a.v) = Len(b.v)
                /\ \A i \in 1..Len(a.v) : JsonEq(a.v[i], b.v[i])
         [] OTHER -> a.v = b.v

TamperTotals == {ToFloat(0), ToFloat(7)}

Edits(txs, st) ==
    [kind : {"invalid", "top_array", "stocks_array", "transactions_number"}]
    \cup [kind : {"drop_top"}, key : {"name", "stocks", "transactions"}]
    \cup [kind : {"drop"}, i : 1..Len(txs),
          key : {"transaction_id", "ticker", "transaction_type", "quantity",
                 "price", "date", "total_value"}]
    \cup [kind : {"unknown_type", "bad_date", "quantity_text"}, i : 1..Len(txs)]
    \cup [kind : {"total_value"}, i : 1..Len(txs), total : TamperTotals]
    \cup [kind : {"drop_stock_ticker"}, k : DOMAIN st]

Without(f, key) == [x \in DOMAIN f \ {key} |-> f[x]]

\* entry i of the transactions of snapshot d replaced by the object with fields f
WithTransaction(d, i, f) ==
    JObj([d.v EXCEPT !.transactions = JArr([d.v.transactions.v EXCEPT ![i] = JObj(f)])])

Edited(d, e) ==
    LET tx(i) == d.v.transactions.v[i].v IN
    CASE e.kind = "invalid" -> FileInvalid
      [] e.kind = "top_array" -> FileJson(JArr(<<d>>))
      [] e.kind = "stocks_array" -> FileJson(JObj([d.v EXCEPT !.stocks = JArr(<<>>)]))
      [] e.kind = "transactions_number" ->
            FileJson(JObj([d.v EXCEPT !.transactions = JNum(Zero)]))
      [] e.kind = "drop_top" -> FileJson(JObj(Without(d.v, e.key)))
      [] e.kind = "drop" -> FileJson(WithTransaction(d, e.i, Without(tx(e.i), e.key)))
      [] e.kind = "unknown_type" ->
            FileJson(WithTransaction(d, e.i,
                        [tx(e.i) EXCEPT !.transaction_type = JStr("HOLD")]))
      [] e.kind = "bad_date" ->
            FileJson(WithTransaction(d, e.i, [tx(e.i) EXCEPT !.date = JStr(<<>>)]))
      [] e.kind = "quantity_text" ->
            FileJson(WithTransaction(d, e.i, [tx(e.i) EXCEPT !.quantity = JStr("ten")]))
      [] e.kind = "total_value" ->
            FileJson(WithTransaction(d, e.i,
                        [tx(e.i) EXCEPT !.total_value = JNum(e.total)]))
      [] e.kind = "drop_stock_ticker" ->
            FileJson(JObj([d.v EXCEPT !.stocks =
                JObj([d.v.stocks.v EXCEPT ![e.k] = JObj(Without(d.v.stocks.v[e.k].v, "ticker"))])]))

(***************************************************************************)
(* The state machine.                                                      *)
(***************************************************************************)
(***************************************************************************)
(* app.py: the web application over investment.db.                         *)
(***************************************************************************)
\* round(x, 2), to the nearest hundredth, halves to the even one
Round2(x) ==
    LET n == x[1] * 100
        d == x[2]
        lo == n \div d
        twice == 2 * (n - lo * d)
        k == IF twice < d THEN lo
             ELSE IF twice > d THEN lo + 1
             ELSE IF lo % 2 = 0 THEN lo ELSE lo + 1
    IN  Norm(k, 100)

\* SELECT * FROM investments WHERE user_id = ?, in rowid order
RECURSIVE RowsOf(_, _, _)
RowsOf(rows, user_id, ids) ==
    IF ids = {} THEN <<>>
    ELSE LET i == CHOOSE x \in ids : \A y \in ids : x <= y
             rest == RowsOf(rows, user_id, ids \ {i})
         IN  IF rows[i].user_id = user_id THEN <<rows[i]>> \o rest ELSE rest

\* the try/except around the price lookup in dashboard
LookupFailed == <<>>
LivePrice(outcome) == IF outcome = LookupFailed THEN Zero ELSE ToFloat(outcome[1])

\* variant: an investment whose lookup fails is left out
DashboardStepSkippingFailures(acc, inv, outcome) ==
    IF outcome = LookupFailed THEN acc
    ELSE LET live_price == LivePrice(outcome)
             current_value == RMul(inv.quantity, live_price)
             cost == RMul(inv.quantity, inv.buy_price)
         IN  [ total_value |-> RAdd(acc.total_value, current_value),
               total_cost |-> RAdd(acc.total_cost, cost),
               portfolio |-> Append(acc.portfolio,
                   [ id |-> inv.id, symbol |-> inv.symbol, category |-> inv.category,
                     quantity |-> inv.quantity, buy_price |-> inv.buy_price,
                     current_price |-> Round2(live_price),
                     value |-> Round2(current_value),
                     profit_loss |-> Round2(RSub(current_value, cost)) ]) ]

\* One iteration of the loop of dashboard.
DashboardStep(acc, inv, outcome) ==
    LET live_price == LivePrice(outcome)
        current_value == RMul(inv.quantity, live_price)
        cost == RMul(inv.quantity, inv.buy_price)
    IN  [ total_value |-> RAdd(acc.total_value, current_value),
          total_cost |-> RAdd(acc.total_cost, cost),
          portfolio |-> Append(acc.portfolio,
              [ id |-> inv.id, symbol |-> inv.symbol, category |-> inv.category,
                quantity |-> inv.quantity, buy_price |-> inv.buy_price,
                current_price |-> Round2(live_price),
                value |-> Round2(current_value),
                profit_loss |-> Round2(RSub(current_value, cost)) ]) ]

\* The loop of dashboard over the first n of the user's investments;
\* outcomes[i] is what the price lookup of the i-th did.
RECURSIVE DashboardLoop(_, _, _)
DashboardLoop(invs, outcomes, n) ==
    IF n = 0 THEN [total_value |-> Zero, total_cost |-> Zero, portfolio |-> <<>>]
    ELSE DashboardStep(DashboardLoop(invs, outcomes, n - 1), invs[n], outcomes[n])

\* render_template('dashboard.html', ...)
DashboardPage(invs, outcomes) ==
    LET acc == DashboardLoop(invs, outcomes, Len(invs)) IN
    [ page |-> "dashboard",
      investments |-> acc.portfolio,
      total_value |-> Round2(acc.total_value),
      total_cost |-> Round2(acc.total_cost),
      profit_loss |-> Round2(RSub(acc.total_value, acc.total_cost)),
      lookups |-> outcomes ]

RedirectToLogin == [page |-> "redirect", to |-> "login"]
RedirectToDashboard == [page |-> "redirect", to |-> "dashboard"]

\* INSERT INTO investments (user_id, symbol, category, quantity, buy_price)
InsertInvestment(table, user_id, symbol, category, quantity, buy_price) ==
    LET id == table.seq + 1 IN
    [ seq |-> id,
      rows |-> [x \in DOMAIN table.rows \cup {id} |->
                  IF x = id
                  THEN [ id |-> id, user_id |-> user_id, symbol |-> symbol,
                         category |-> category, quantity |-> quantity,
                         buy_price |-> buy_price ]
                  ELSE table.rows[x]] ]

\* DELETE FROM investments WHERE id = ? AND user_id = ?
DeleteInvestmentRow(table, inv_id, user_id) ==
    [ table EXCEPT !.rows =
        [x \in {y \in DOMAIN table.rows :
                   ~(y = inv_id /\ table.rows[y].user_id = user_id)} |-> table.rows[x]] ]

\* UPDATE investments SET quantity=?, buy_price=? WHERE id=?
UpdateInvestmentRow(table, inv_id, user_id, quantity, buy_price) ==
    [ table EXCEPT !.rows =
        [x \in DOMAIN table.rows |->
            IF x = inv_id
            THEN [table.rows[x] EXCEPT !.quantity = quantity, !.buy_price = buy_price]
            ELSE table.rows[x]] ]

\* SELECT * FROM investments WHERE id = ? AND user_id = ?  (fetchone)
SelectInvestmentRow(table, inv_id, user_id) ==
    IF inv_id \in DOMAIN table.rows /\ table.rows[inv_id].user_id = user_id
    THEN Some(table.rows[inv_id]) ELSE None

(***************************************************************************)
(* cli.py: the commands of PortfolioCLI. The numbers are what               *)
(* get_user_input returned, float(text) of the text typed.                 *)
(***************************************************************************)
\* variant: the snapshot is written before the transaction is added
CliAddAndSaveEarly(t, st, message) ==
    /\ transactions' = AddTransactionLedger(transactions, t)
    /\ stocks' = AddTransactionStocks(st, t)
    /\ portfolio_file' = JsonDump(PortfolioToDict(name, st, transactions))
    /\ cli_output' = message
    /\ now' = now + 1
    /\ calls' = <<>>
    /\ UNCHANGED <<name, load_result, investments, session, response>>

\* self.portfolio.add_transaction(transaction); self._save_portfolio(),
\* with st the registry the command has reached
CliAddAndSave(t, st, message) ==
    /\ transactions' = AddTransactionLedger(transactions, t)
    /\ stocks' = AddTransactionStocks(st, t)
    /\ portfolio_file' = JsonDump(PortfolioToDict(name, stocks', transactions'))
    /\ cli_output' = message
    /\ now' = now + 1
    /\ calls' = <<>>
    /\ UNCHANGED <<name, load_result, investments, session, response>>

\* print("Error: ..."); return
CliReject(message) ==
    /\ cli_output' = message
    /\ UNCHANGED <<name, transactions, stocks, now, portfolio_file, load_result>>
    /\ UNCHANGED <<calls, investments, session, response>>

\* The checks of add_sell_transaction, in order: the error printed, "" for none
SellRefused(holdings, ticker, quantity, price) ==
    IF Upper(ticker) \notin DOMAIN holdings THEN "Error: no holdings"
    ELSE IF RLe(quantity, Zero) \/ RLe(price, Zero) THEN "Error: must be positive"
    ELSE IF RGt(quantity, holdings[Upper(ticker)].quantity) THEN "Error: cannot sell"
    ELSE ""

\* Nothing was queried or printed, investment.db has its empty tables
\* (init_db) and nobody is logged in.
Idle ==
    /\ calls = <<>>
    /\ cli_output = ""
    /\ investments = [seq |-> 0, rows |-> <<>>]
    /\ session = None
    /\ response = [page |-> "none"]

Init ==
    /\ name = "My Portfolio"
    /\ transactions = <<>>
    /\ stocks = [k \in {} |-> Stock("", "")]
    /\ now = 0
    /\ portfolio_file = FileAbsent
    /\ load_result = [outcome |-> "not called"]
    /\ Idle

\* portfolio.add_transaction(Transaction(ticker, type, quantity, price, date)):
\* the clock has moved on by the time it is read again.
AddTransactionDated(ticker, type, q, p, date, bound) ==
    /\ Len(transactions) < bound
    /\ LET t == Transaction(ticker, type, ToFloat(q), ToFloat(p), date, None) IN
        /\ transactions' = AddTransactionLedger(transactions, t)
        /\ stocks' = AddTransactionStocks(stocks, t)
    /\ now' = now + 1
    /\ calls' = <<>>
    /\ UNCHANGED <<name, portfolio_file, load_result>>
    /\ UNCHANGED <<cli_output, investments, session, response>>

\* portfolio.add_transaction(Transaction(ticker, type, quantity, price))
AddTransactionOf(ticker, type, q, p, bound) ==
    AddTransactionDated(ticker, type, q, p, None, bound)

\* a caller that passes positive quantities and prices only
AddTransaction ==
    \E ticker \in TickerInputs, type \in TransactionType,
       q \in ValidQuantities, p \in ValidPrices :
        AddTransactionOf(ticker, type, q, p, MaxLen)

\* a caller that passes any quantity and price
AddAnyTransaction ==
    \E ticker \in TickerInputs, type \in TransactionType,
       q \in AnyQuantities, p \in AnyPrices :
        AddTransactionOf(ticker, type, q, p, MaxLenAny)

\* DataStore.save_portfolio(portfolio)
SavePortfolio ==
    /\ portfolio_file' = JsonDump(PortfolioToDict(name, stocks, transactions))
    /\ UNCHANGED <<name, transactions, stocks, now, load_result>>
    /\ UNCHANGED <<calls, cli_output, investments, session, response>>

\* DataStore.clear_portfolio()
ClearPortfolio ==
    /\ portfolio_file.kind # "absent"
    /\ portfolio_file' = FileAbsent
    /\ UNCHANGED <<name, transactions, stocks, now, load_result>>
    /\ UNCHANGED <<calls, cli_output, investments, session, response>>

\* Something other than the program edits the file that save_portfolio wrote.
TamperFile ==
    /\ portfolio_file.kind = "json"
    /\ JsonEq(portfolio_file.value, PortfolioToDict(name, stocks, transactions))
    /\ \E e \in Edits(transactions, stocks) :
          portfolio_file' = Edited(PortfolioToDict(name, stocks, transactions), e)
    /\ UNCHANGED <<name, transactions, stocks, now, load_result>>
    /\ UNCHANGED <<calls, cli_output, investments, session, response>>

\* loaded = store.load_portfolio(): what it returned or raised is kept
Load ==
    /\ load_result' = LoadPortfolio(portfolio_file)
    /\ UNCHANGED <<name, transactions, stocks, now, portfolio_file>>
    /\ UNCHANGED <<calls, cli_output, investments, session, response>>

\* The ledger engine, called with positive quantities and prices.
Next == AddTransaction
Spec == Init /\ [][Next]_vars

\* The ledger engine, called with any quantity and price.
NextAny == AddAnyTransaction
SpecAny == Init /\ [][NextAny]_vars

\* The file store around a portfolio built from positive quantities and
\* prices: transaction i is dated i - 1 microseconds, and add_stock may have
\* named AAPL after the transactions.
RECURSIVE LedgersOfLen(_)
LedgersOfLen(n) ==
    IF n = 0 THEN {<<>>}
    ELSE { AddTransactionLedger(txs,
               Transaction(ticker, type, ToFloat(q), ToFloat(p), Some(n - 1), None)) :
             txs \in LedgersOfLen(n - 1), ticker \in StoreTickerInputs,
             type \in TransactionType, q \in ValidQuantities, p \in ValidPrices }

RECURSIVE RegistryOf(_)
RegistryOf(txs) ==
    IF txs = <<>> THEN [k \in {} |-> Stock("", "")]
    ELSE AddTransactionStocks(RegistryOf(SubSeq(txs, 1, Len(txs) - 1)), txs[Len(txs)])

InitStore ==
    /\ now = 0
    /\ name = "Test Portfolio"
    /\ transactions \in UNION {LedgersOfLen(n) : n \in 0..MaxLenStore}
    /\ stocks \in { RegistryOf(transactions),
                    AddStockRegistry(RegistryOf(transactions),
                                     Stock("AAPL", "Apple Inc.")) }
    /\ portfolio_file = FileAbsent
    /\ load_result = [outcome |-> "not called"]
    /\ Idle

NextStore ==
    \/ SavePortfolio
    \/ ClearPortfolio
    \/ TamperFile
    \/ Load
SpecStore == InitStore /\ [][NextStore]_vars

\* variant: get_transactions_by_ticker keeps only the matches in the ledger
QueryKeepingMatches(op, arg, value) ==
    /\ Len(calls) < MaxCalls
    /\ calls' = Append(calls, [op |-> op, arg |-> arg, value |-> value])
    /\ transactions' = IF op = "get_transactions_by_ticker" THEN value ELSE transactions
    /\ UNCHANGED <<name, stocks, now, portfolio_file, load_result>>
    /\ UNCHANGED <<cli_output, investments, session, response>>

\* A caller of the query operations: every call made since the last
\* mutation is kept with what it returned.
Query(op, arg, value) ==
    /\ Len(calls) < MaxCalls
    /\ calls' = Append(calls, [op |-> op, arg |-> arg, value |-> value])
    /\ UNCHANGED <<name, transactions, stocks, now, portfolio_file, load_result>>
    /\ UNCHANGED <<cli_output, investments, session, response>>

GetPortfolioSummaryCall ==
    Query("get_portfolio_summary", "", GetPortfolioSummary(name, transactions))

GetHoldingsCall == Query("get_holdings", "", GetHoldings(transactions))

GetRealizedGainsCall ==
    Query("get_realized_gains", "", GetRealizedGains(transactions))

GetDividendIncomeCall ==
    Query("get_dividend_income", "", GetDividendIncome(transactions))

GetTransactionsByTickerCall ==
    \E ticker \in QueryTickerInputs :
        Query("get_transactions_by_ticker", ticker,
              GetTransactionsByTicker(transactions, ticker))

\* portfolio.add_stock(Stock("aapl", "Apple Inc."))
AddStock ==
    /\ stocks' = AddStockRegistry(stocks, Stock("aapl", "Apple Inc."))
    /\ calls' = <<>>
    /\ UNCHANGED <<name, transactions, now, portfolio_file, load_result>>
    /\ UNCHANGED <<cli_output, investments, session, response>>

AddQueryTransaction ==
    \E ticker \in QueryTickerInputs, type \in TransactionType,
       q \in ValidQuantities, p \in QueryPrices :
        AddTransactionOf(ticker, type, q, p, MaxLenQuery)

\* The ledger engine with its queries and add_stock.
NextQuery ==
    \/ AddQueryTransaction
    \/ AddStock
    \/ GetPortfolioSummaryCall
    \/ GetHoldingsCall
    \/ GetRealizedGainsCall
    \/ GetDividendIncomeCall
    \/ GetTransactionsByTickerCall
SpecQuery == Init /\ [][NextQuery]_vars

\* a caller that passes the date of the trade, or leaves it to the clock
AddClockTransaction ==
    \E ticker \in QueryTickerInputs, type \in TransactionType,
       q \in ClockQuantities, p \in QueryPrices, date \in DateInputs :
        AddTransactionDated(ticker, type, q, p, date, MaxLenClock)

\* The ledger engine with dated transactions; every id is generated.
NextClock == AddClockTransaction
SpecClock == Init /\ [][NextClock]_vars

\* POST /login with the credentials of user u
Login ==
    \E u \in Users :
        /\ session' = Some(u)
        /\ response' = RedirectToDashboard
        /\ UNCHANGED <<name, transactions, stocks, now, portfolio_file, load_result>>
        /\ UNCHANGED <<calls, cli_output, investments>>

\* GET /logout
Logout ==
    /\ session' = None
    /\ response' = RedirectToLogin
    /\ UNCHANGED <<name, transactions, stocks, now, portfolio_file, load_result>>
    /\ UNCHANGED <<calls, cli_output, investments>>

\* GET /dashboard
Dashboard ==
    /\ IF session = None
       THEN response' = RedirectToLogin
       ELSE LET invs == RowsOf(investments.rows, session[1], DOMAIN investments.rows) IN
            \E outcomes \in [1..Len(invs) -> LookupOutcomes] :
                response' = DashboardPage(invs, outcomes)
    /\ UNCHANGED <<name, transactions, stocks, now, portfolio_file, load_result>>
    /\ UNCHANGED <<calls, cli_output, investments, session>>

\* POST /add_investment
AddInvestment ==
    /\ investments.seq < MaxRows
    /\ IF session = None
       THEN response' = RedirectToLogin /\ UNCHANGED investments
       ELSE \E symbol \in Symbols, quantity \in FormQuantities, buy_price \in FormPrices :
               /\ investments' = InsertInvestment(investments, session[1], symbol, "Stocks",
                                                  ToFloat(quantity), ToFloat(buy_price))
               /\ response' = RedirectToDashboard
    /\ UNCHANGED <<name, transactions, stocks, now, portfolio_file, load_result>>
    /\ UNCHANGED <<calls, cli_output, session>>

\* GET /delete/<inv_id>
DeleteInvestment ==
    \E inv_id \in 1..MaxRows :
        /\ IF session = None
           THEN response' = RedirectToLogin /\ UNCHANGED investments
           ELSE /\ investments' = DeleteInvestmentRow(investments, inv_id, session[1])
                /\ response' = RedirectToDashboard
        /\ UNCHANGED <<name, transactions, stocks, now, portfolio_file, load_result>>
        /\ UNCHANGED <<calls, cli_output, session>>

\* POST /edit/<inv_id>
EditInvestmentPost ==
    \E inv_id \in 1..MaxRows, quantity \in FormQuantities, buy_price \in FormPrices :
        /\ IF session = None
           THEN response' = RedirectToLogin /\ UNCHANGED investments
           ELSE /\ investments' = UpdateInvestmentRow(investments, inv_id, session[1],
                                                      ToFloat(quantity), ToFloat(buy_price))
                /\ response' = RedirectToDashboard
        /\ UNCHANGED <<name, transactions, stocks, now, portfolio_file, load_result>>
        /\ UNCHANGED <<calls, cli_output, session>>

\* GET /edit/<inv_id>
EditInvestmentGet ==
    \E inv_id \in 1..MaxRows :
        /\ IF session = None
           THEN response' = RedirectToLogin
           ELSE response' = [ page |-> "edit_investment",
                              investment |-> SelectInvestmentRow(investments, inv_id,
                                                                 session[1]) ]
        /\ UNCHANGED <<name, transactions, stocks, now, portfolio_file, load_result>>
        /\ UNCHANGED <<calls, cli_output, investments, session>>

\* The web application with its registered users.
NextWeb ==
    \/ Login
    \/ Logout
    \/ Dashboard
    \/ AddInvestment
    \/ DeleteInvestment
    \/ EditInvestmentPost
    \/ EditInvestmentGet
SpecWeb == Init /\ [][NextWeb]_vars

\* PortfolioCLI.add_buy_transaction
CliBuy ==
    /\ Len(transactions) < MaxLenCli
    /\ \E ticker \in QueryTickerInputs, quantity \in CliQuantities,
          price \in CliPrices, stock_name \in CliNames :
        IF RLe(quantity, Zero) \/ RLe(price, Zero)
        THEN CliReject("Error: must be positive")
        ELSE LET st == IF Upper(ticker) \notin DOMAIN stocks
                       THEN AddStockRegistry(stocks, Stock(ticker, stock_name))
                       ELSE stocks
             IN  CliAddAndSave(Transaction(ticker, "BUY", quantity, price, None, None),
                               st, "Buy transaction added")

\* PortfolioCLI.add_sell_transaction
CliSell ==
    /\ Len(transactions) < MaxLenCli
    /\ \E ticker \in QueryTickerInputs, quantity \in CliQuantities, price \in CliPrices :
        LET refused == SellRefused(GetHoldings(transactions), ticker, quantity, price) IN
        IF refused # ""
        THEN CliReject(refused)
        ELSE CliAddAndSave(Transaction(ticker, "SELL", quantity, price, None, None),
                           stocks, "Sell transaction added")

\* PortfolioCLI.add_dividend_income
CliDividend ==
    /\ Len(transactions) < MaxLenCli
    /\ \E ticker \in QueryTickerInputs, amount \in CliAmounts :
        IF RLe(amount, Zero)
        THEN CliReject("Error: must be positive")
        ELSE CliAddAndSave(Transaction(ticker, "DIVIDEND", ToFloat(1), amount, None, None),
                           stocks, "Dividend income added")

\* PortfolioCLI started with no portfolio.json: the menu commands that add.
NextCli ==
    \/ CliBuy
    \/ CliSell
    \/ CliDividend
SpecCli == Init /\ [][NextCli]_vars

\* The ledger engine over ledgers long enough to buy, sell out and buy twice.
AddSellOutTransaction ==
    \E ticker \in SellOutTickerInputs, type \in TransactionType,
       q \in ValidQuantities, p \in ValidPrices :
        AddTransactionOf(ticker, type, q, p, MaxLenSellOut)

NextSellOut == AddSellOutTransaction
SpecSellOut == Init /\ [][NextSellOut]_vars

(***************************************************************************)
(* Reference notions the properties are stated with.                       *)
(***************************************************************************)
AllTickers == {Upper(x) : x \in TickerInputs}
QueryTickers == TickerInputs \cup {"msft", "GOOG"}

Prefix(txs, n) == SubSeq(txs, 1, n)
Front(txs) == SubSeq(txs, 1, Len(txs) - 1)
Last(txs) == txs[Len(txs)]

\* the positive quantities and prices the specification calls valid
ValidTransaction(t) == RGt(t.quantity, Zero) /\ RGt(t.price, Zero)
ValidLedger(txs) == \A i \in 1..Len(txs) : ValidTransaction(txs[i])

\* open quantity of a ticker: shares bought minus shares sold
RECURSIVE OpenQuantity(_, _)
OpenQuantity(txs, k) ==
    IF txs = <<>> THEN Zero
    ELSE LET t == Last(txs)
             before == OpenQuantity(Front(txs), k)
         IN  IF t.ticker # k THEN before
             ELSE IF t.transaction_type = "BUY" THEN RAdd(before, t.quantity)
             ELSE IF t.transaction_type = "SELL" THEN RSub(before, t.quantity)
             ELSE before

\* no SELL exceeds the open quantity of its ticker at its position
NoOverSell(txs) ==
    \A i \in 1..Len(txs) :
        txs[i].transaction_type = "SELL" =>
            ~RGt(txs[i].quantity, OpenQuantity(Prefix(txs, i - 1), txs[i].ticker))

(***************************************************************************)
(* C1. No transaction with a non-positive quantity or price is ever in the *)
(* ledger that add_transaction appends to (the constructor is said to      *)
(* reject it).                                                             *)
(***************************************************************************)
C1_LedgerHoldsOnlyPositive == ValidLedger(transactions)

(***************************************************************************)
(* C2. load_portfolio returns None for every malformed snapshot and lets   *)
(* no exception through. A snapshot is malformed when it is no JSON, when  *)
(* a container has the wrong type, when a field the reader needs is        *)
(* missing, or when a value cannot be decoded.                             *)
(***************************************************************************)
MalformedStock(x) ==
    \/ x.j # "object"
    \/ "ticker" \notin DOMAIN x.v
    \/ x.v.ticker.j # "string"

MalformedTransaction(x) ==
    \/ x.j # "object"
    \/ {"ticker", "transaction_type", "quantity", "price", "date"} \ DOMAIN x.v # {}
    \/ x.v.ticker.j # "string"
    \/ x.v.transaction_type.j # "string"
    \/ x.v.transaction_type.v \notin TransactionType
    \/ x.v.quantity.j # "number"
    \/ x.v.price.j # "number"
    \/ x.v.date.j # "string"
    \/ ~IsIsoDate(x.v.date.v)

Malformed(file) ==
    \/ file.kind = "invalid"
    \/ /\ file.kind = "json"
       /\ \/ file.value.j # "object"
          \/ /\ "stocks" \in DOMAIN file.value.v
             /\ \/ file.value.v.stocks.j # "object"
                \/ \E k \in DOMAIN file.value.v.stocks.v :
                       MalformedStock(file.value.v.stocks.v[k])
          \/ /\ "transactions" \in DOMAIN file.value.v
             /\ \/ file.value.v.transactions.j # "array"
                \/ \E i \in 1..Len(file.value.v.transactions.v) :
                       MalformedTransaction(file.value.v.transactions.v[i])

\* a step of load_portfolio: the file and the portfolio in memory stay as they are
LoadStep ==
    /\ UNCHANGED <<name, transactions, stocks, now>>
    /\ portfolio_file'.kind = portfolio_file.kind
    /\ portfolio_file.kind = "json" => JsonEq(portfolio_file'.value, portfolio_file.value)

C2_MalformedLoadsAsNone ==
    [][LoadStep =>
        /\ load_result'.outcome # "raised"
        /\ Malformed(portfolio_file) => load_result'.outcome = "none"
      ]_vars

(***************************************************************************)
(* C3. For a portfolio built from valid transactions, from_dict(to_dict()) *)
(* and save followed by load give a portfolio with the same holdings, the  *)
(* same realized gains and the same dividend income.                       *)
(***************************************************************************)
SameViews(a, b) ==
    /\ GetHoldings(a) = GetHoldings(b)
    /\ GetRealizedGains(a) = GetRealizedGains(b)
    /\ GetDividendIncome(a) = GetDividendIncome(b)

C3_RoundTripKeepsViews ==
    ValidLedger(transactions) =>
        LET d == PortfolioToDict(name, stocks, transactions)
            direct == PortfolioFromDict(d)
            stored == LoadPortfolio(JsonDump(d))
        IN  /\ direct.exc = ""
            /\ SameViews(direct.value.transactions, transactions)
            /\ stored.outcome = "portfolio"
            /\ SameViews(stored.portfolio.transactions, transactions)

\* the portfolio was saved and loaded back, with a holding and a realized gain
C3_Witness ==
    /\ portfolio_file.kind = "json"
    /\ JsonEq(portfolio_file.value, PortfolioToDict(name, stocks, transactions))
    /\ load_result.outcome = "portfolio"
    /\ Len(load_result.portfolio.transactions) = Len(transactions)
    /\ GetHoldings(load_result.portfolio.transactions) # <<>>
    /\ GetRealizedGains(load_result.portfolio.transactions) # Zero
    /\ transactions[2].date % MicrosPerSecond # 0

(***************************************************************************)
(* C4. Snapshots that differ only in the total_value fields of their       *)
(* transactions load into portfolios with the same total_value per         *)
(* transaction (quantity * price), holdings, realized gains and dividend   *)
(* income.                                                                 *)
(***************************************************************************)
\* the snapshot d with the total_value of transaction i replaced by f[i]
WithTotals(d, f) ==
    JObj([d.v EXCEPT !.transactions =
        JArr([i \in 1..Len(d.v.transactions.v) |->
                JObj([d.v.transactions.v[i].v EXCEPT !.total_value = JNum(f[i])])])])

C4_TotalValueNotTrusted ==
    LET d == PortfolioToDict(name, stocks, transactions)
        n == Len(transactions)
        clean == LoadPortfolio(JsonDump(d))
    IN  \A f \in [1..n -> TamperTotals] :
            LET other == LoadPortfolio(FileJson(WithTotals(d, f))) IN
            /\ clean.outcome = "portfolio"
            /\ other.outcome = "portfolio"
            /\ Len(other.portfolio.transactions) = n
            /\ \A i \in 1..n :
                  /\ TotalValue(other.portfolio.transactions[i]) =
                         TotalValue(clean.portfolio.transactions[i])
                  /\ TotalValue(other.portfolio.transactions[i]) =
                         RMul(transactions[i].quantity, transactions[i].price)
            /\ SameViews(other.portfolio.transactions, clean.portfolio.transactions)

\* a file whose total_value was edited to 7 was loaded, and the transaction
\* loaded from it is worth quantity * price = 2
C4_Witness ==
    /\ load_result.outcome = "portfolio"
    /\ portfolio_file.kind = "json"
    /\ LoadPortfolio(portfolio_file).outcome = "portfolio"
    /\ "transactions" \in DOMAIN portfolio_file.value.v
    /\ \E i \in 1..Len(load_result.portfolio.transactions) :
          /\ i <= Len(portfolio_file.value.v.transactions.v)
          /\ "total_value" \in DOMAIN portfolio_file.value.v.transactions.v[i].v
          /\ portfolio_file.value.v.transactions.v[i].v.total_value.v = ToFloat(7)
          /\ TotalValue(load_result.portfolio.transactions[i]) = ToFloat(2)
          /\ TotalValue(transactions[i]) = ToFloat(2)

(***************************************************************************)
(* C5. get_holdings() contains a ticker exactly when its open quantity is  *)
(* strictly positive, the holding then carries that quantity, and a SELL   *)
(* of the whole open quantity leaves the ticker absent.                    *)
(***************************************************************************)
C5_HoldingsIffOpenPositive ==
    LET h == GetHoldings(transactions) IN
    /\ \A k \in AllTickers :
          (k \in DOMAIN h) <=> RGt(OpenQuantity(transactions, k), Zero)
    /\ \A k \in DOMAIN h :
          /\ k \in AllTickers
          /\ h[k].quantity = OpenQuantity(transactions, k)
          /\ RGt(h[k].quantity, Zero)
    /\ (/\ Len(transactions) > 0
        /\ Last(transactions).transaction_type = "SELL"
        /\ Last(transactions).quantity =
               OpenQuantity(Front(transactions), Last(transactions).ticker))
       => Last(transactions).ticker \notin DOMAIN h

\* a held ticker was sold out entirely by the last transaction
C5_Witness ==
    /\ Len(transactions) > 0
    /\ Last(transactions).transaction_type = "SELL"
    /\ Last(transactions).ticker \in DOMAIN GetHoldings(Front(transactions))
    /\ Last(transactions).quantity =
           OpenQuantity(Front(transactions), Last(transactions).ticker)
    /\ Last(transactions).ticker \notin DOMAIN GetHoldings(transactions)

(***************************************************************************)
(* C6. Appending a DIVIDEND transaction leaves every holding and the       *)
(* realized gains as they were and raises the dividend income by the       *)
(* transaction's total_value.                                              *)
(***************************************************************************)
DividendAppended ==
    /\ Len(transactions') = Len(transactions) + 1
    /\ Front(transactions') = transactions
    /\ Last(transactions').transaction_type = "DIVIDEND"

C6_DividendFrame ==
    [][DividendAppended =>
        /\ GetHoldings(transactions') = GetHoldings(transactions)
        /\ GetRealizedGains(transactions') = GetRealizedGains(transactions)
        /\ GetDividendIncome(transactions') =
              RAdd(GetDividendIncome(transactions), TotalValue(Last(transactions')))
      ]_vars

\* a dividend was appended to a ledger with a holding and a realized gain
C6_Witness ==
    /\ Len(transactions) > 1
    /\ Last(transactions).transaction_type = "DIVIDEND"
    /\ TotalValue(Last(transactions)) # Zero
    /\ Last(transactions).ticker \in DOMAIN GetHoldings(Front(transactions))

(***************************************************************************)
(* C7. A SELL of q shares of a ticker held with quantity Q > q leaves the  *)
(* holding with quantity Q - q and the average cost it had before.         *)
(***************************************************************************)
PartialSell(txs) ==
    /\ Len(txs) > 0
    /\ Last(txs).transaction_type = "SELL"
    /\ RGt(Last(txs).quantity, Zero)
    /\ RGt(OpenQuantity(Front(txs), Last(txs).ticker), Last(txs).quantity)

C7_PartialSellKeepsAverage ==
    PartialSell(transactions) =>
        LET k == Last(transactions).ticker
            before == GetHoldings(Front(transactions))
            after == GetHoldings(transactions)
        IN  /\ k \in DOMAIN before
            /\ k \in DOMAIN after
            /\ after[k].quantity = RSub(before[k].quantity, Last(transactions).quantity)
            /\ after[k].quantity =
                   RSub(OpenQuantity(Front(transactions), k), Last(transactions).quantity)
            /\ after[k].average_cost = before[k].average_cost

\* two buys at different prices, then a partial sale at a fractional average
C7_Witness ==
    /\ PartialSell(transactions)
    /\ Len(transactions) = 3
    /\ transactions[1].transaction_type = "BUY"
    /\ transactions[2].transaction_type = "BUY"
    /\ transactions[1].price # transactions[2].price
    /\ GetHoldings(transactions)[Last(transactions).ticker].average_cost[2] # 1

(***************************************************************************)
(* C8. When no SELL exceeds the open quantity, get_realized_gains() is the *)
(* sum over the SELLs of quantity * (price - average cost of the holding   *)
(* just before the sale).                                                  *)
(***************************************************************************)
RECURSIVE SumOfSaleGains(_, _)
SumOfSaleGains(txs, n) ==
    IF n = 0 THEN Zero
    ELSE LET t == txs[n]
             rest == SumOfSaleGains(txs, n - 1)
         IN  IF t.transaction_type = "SELL"
             THEN RAdd(rest,
                       RMul(t.quantity,
                            RSub(t.price,
                                 GetHoldings(Prefix(txs, n - 1))[t.ticker].average_cost)))
             ELSE rest

OnlyBuysOfOneTicker(txs) ==
    /\ Len(txs) > 0
    /\ \A i \in 1..Len(txs) :
          /\ txs[i].transaction_type = "BUY"
          /\ txs[i].ticker = txs[1].ticker

RECURSIVE SumQuantity(_, _)
SumQuantity(txs, n) ==
    IF n = 0 THEN Zero ELSE RAdd(SumQuantity(txs, n - 1), txs[n].quantity)

RECURSIVE SumQuantityPrice(_, _)
SumQuantityPrice(txs, n) ==
    IF n = 0 THEN Zero
    ELSE RAdd(SumQuantityPrice(txs, n - 1), RMul(txs[n].quantity, txs[n].price))

Reordered(txs, f) == [i \in 1..Len(txs) |-> txs[f[i]]]

Lower(s) ==
    CASE s = "AAPL" -> "aapl"
      [] s = "MSFT" -> "msft"
      [] s = "GOOG" -> "goog"
      [] OTHER -> s

SameIgnoringCase(a, b) == Lower(a) = Lower(b)

\* r is txs restricted to the positions in P, in the order of txs
RECURSIVE Restriction(_, _, _)
Restriction(txs, P, n) ==
    IF n = 0 THEN <<>>
    ELSE IF n \in P THEN Append(Restriction(txs, P, n - 1), txs[n])
    ELSE Restriction(txs, P, n - 1)

C10_ByTickerIsOrderedFilter ==
    \A x \in QueryTickers :
        LET r == GetTransactionsByTicker(transactions, x)
            P == {i \in 1..Len(transactions) :
                    SameIgnoringCase(transactions[i].ticker, x)}
        IN  r = Restriction(transactions, P, Len(transactions))

\* a lower-case query selects the first and the last of three transactions
C10_Witness ==
    /\ Len(transactions) = 3
    /\ transactions[1].ticker = "MSFT"
    /\ transactions[2].ticker = "AAPL"
    /\ transactions[3].ticker = "MSFT"
    /\ transactions[1] # transactions[3]
    /\ GetTransactionsByTicker(transactions, "msft") =
           <<transactions[1], transactions[3]>>

(***************************************************************************)
(* C11. A call of get_portfolio_summary, get_holdings, get_realized_gains, *)
(* get_dividend_income or get_transactions_by_ticker leaves the            *)
(* transaction list and the stocks registry as they were, and the          *)
(* get_portfolio_summary calls made with no mutation between them return   *)
(* the same result.                                                        *)
(***************************************************************************)
QueryStep == Len(calls') = Len(calls) + 1

SummariesAgree(cs) ==
    \A i, j \in 1..Len(cs) :
        (cs[i].op = "get_portfolio_summary" /\ cs[j].op = "get_portfolio_summary")
            => cs[i].value = cs[j].value

AddTransactionStep == Len(transactions') = Len(transactions) + 1

C12_AddTransactionAppendsOnly ==
    [][AddTransactionStep =>
        LET t == Last(transactions') IN
        /\ transactions' = Append(transactions, t)
        /\ \A i \in 1..Len(transactions) : transactions'[i] = transactions[i]
        /\ DOMAIN stocks' = DOMAIN stocks \cup {t.ticker}
        /\ \A k \in DOMAIN stocks : stocks'[k] = stocks[k]
        /\ t.ticker \notin DOMAIN stocks =>
               stocks'[t.ticker] = [ticker |-> t.ticker, name |-> t.ticker]
      ]_vars

\* the ledger ends with a transaction of AAPL, which add_stock had named,
\* after one of MSFT, which add_transaction registered
C12_Witness ==
    /\ Len(transactions) = 2
    /\ transactions[1].ticker = "MSFT"
    /\ transactions[2].ticker = "AAPL"
    /\ stocks["AAPL"].name = "Apple Inc."
    /\ stocks["MSFT"].name = "MSFT"

(***************************************************************************)
(* C13. Any two transactions of a ledger whose ids were generated from     *)
(* ticker and timestamp have different transaction_id values.              *)
(***************************************************************************)
C13_GeneratedIdsAreUnique ==
    \A i, j \in 1..Len(transactions) :
        i # j => transactions[i].transaction_id # transactions[j].transaction_id

(***************************************************************************)
(* C14. In a dashboard request every investment of the user is listed;     *)
(* one whose price lookup fails has price 0 and value 0, every other one   *)
(* is valued at quantity * price, and the totals are taken over all of     *)
(* them.                                                                   *)
(***************************************************************************)
DashboardServed ==
    /\ session # None
    /\ session' = session
    /\ investments' = investments
    /\ response'.page = "dashboard"

RECURSIVE SumOfAmounts(_)
SumOfAmounts(amounts) ==
    IF amounts = <<>> THEN Zero
    ELSE RAdd(amounts[1], SumOfAmounts(Tail(amounts)))

C14_FailedLookupIsNotFatal ==
    [][DashboardServed =>
        LET r == response'
            owned == {i \in DOMAIN investments.rows :
                        investments.rows[i].user_id = session[1]}
            worth == [n \in 1..Len(r.investments) |->
                        IF r.lookups[n] = LookupFailed THEN Zero
                        ELSE RMul(r.investments[n].quantity, ToFloat(r.lookups[n][1]))]
            cost == [n \in 1..Len(r.investments) |->
                        RMul(r.investments[n].quantity, r.investments[n].buy_price)]
        IN  /\ Len(r.investments) = Cardinality(owned)
            /\ {r.investments[n].id : n \in 1..Len(r.investments)} = owned
            /\ \A n \in 1..Len(r.investments) :
                  LET inv == investments.rows[r.investments[n].id] IN
                  /\ r.investments[n].quantity = inv.quantity
                  /\ r.investments[n].buy_price = inv.buy_price
                  /\ r.lookups[n] = LookupFailed =>
                        /\ r.investments[n].current_price = Zero
                        /\ r.investments[n].value = Zero
                  /\ r.lookups[n] # LookupFailed =>
                        /\ r.investments[n].current_price =
                               Round2(ToFloat(r.lookups[n][1]))
                        /\ r.investments[n].value =
                               Round2(RMul(inv.quantity, ToFloat(r.lookups[n][1])))
            /\ r.total_value = Round2(SumOfAmounts(worth))
            /\ r.total_cost = Round2(SumOfAmounts(cost))
      ]_vars

\* a dashboard of two investments: the lookup of the first failed, the
\* second is valued and makes the total
C14_Witness ==
    /\ response.page = "dashboard"
    /\ Len(response.investments) = 2
    /\ response.lookups[1] = LookupFailed
    /\ response.lookups[2] # LookupFailed
    /\ response.investments[1].value = Zero
    /\ response.investments[2].value # Zero
    /\ response.total_value = response.investments[2].value

(***************************************************************************)
(* C15. At every prefix of every ledger, oversold or not, the quantity and *)
(* the cost basis of each ticker in the replay of get_holdings equal those *)
(* in the replay of get_realized_gains.                                    *)
(***************************************************************************)
C15_ReplaysAgree ==
    \A n \in 0..Len(transactions) : \A k \in AllTickers :
        Entry(HoldingsData(Prefix(transactions, n)), k) =
            Entry(GainsState(Prefix(transactions, n)).tracker, k)

(***************************************************************************)
(* C16. A SELL of a ticker whose open quantity is 0, in a ledger with no   *)
(* oversell before it, takes the quantity of the get_holdings replay below *)
(* zero at an unchanged cost basis and adds nothing to                     *)
(* get_realized_gains(), whose replay leaves the ticker as it was.         *)
(***************************************************************************)
SellFromZero(txs) ==
    /\ Len(txs) > 0
    /\ Last(txs).transaction_type = "SELL"
    /\ ValidLedger(txs)
    /\ NoOverSell(Front(txs))
    /\ OpenQuantity(Front(txs), Last(txs).ticker) = Zero

C17_CliKeepsPositionsNonNegative ==
    \A n \in 0..Len(transactions) : \A k \in AllTickers :
        RLe(Zero, OpenQuantity(Prefix(transactions, n), k))

(***************************************************************************)
(* C20. After an accepted CLI buy, sell or dividend command the snapshot   *)
(* on disk equals to_dict() of the portfolio in memory; a rejected command *)
(* changes neither the ledger, the stocks registry nor the snapshot.       *)
(***************************************************************************)
CliErrors == {"Error: must be positive", "Error: no holdings", "Error: cannot sell"}

SnapshotIsCurrent ==
    /\ portfolio_file.kind = "json"
    /\ JsonEq(portfolio_file.value, PortfolioToDict(name, stocks, transactions))

C20_CliSavesWhatItAccepts ==
    [][IF cli_output' \in CliErrors
       THEN /\ transactions' = transactions
            /\ stocks' = stocks
            /\ name' = name
            /\ portfolio_file'.kind = portfolio_file.kind
            /\ portfolio_file.kind = "json" =>
                   JsonEq(portfolio_file'.value, portfolio_file.value)
       ELSE /\ Len(transactions') = Len(transactions) + 1
            /\ SnapshotIsCurrent'
      ]_vars

\* a buy and a dividend were accepted and saved, then a sell of more than
\* the holding was refused
C20_Witness ==
    /\ Len(transactions) = 2
    /\ transactions[1].transaction_type = "BUY"
    /\ transactions[2].transaction_type = "DIVIDEND"
    /\ cli_output = "Error: cannot sell"
    /\ SnapshotIsCurrent

(***************************************************************************)
(* C18. A request made in the session of one user changes and deletes no   *)
(* investments row of another user, and the edit page shows only a row of  *)
(* the session's user.                                                     *)
(***************************************************************************)
C18_OnlyOwnRowsAreTouched ==
    [][session # None =>
        /\ \A id \in DOMAIN investments.rows :
              investments.rows[id].user_id # session[1] =>
                  /\ id \in DOMAIN investments'.rows
                  /\ investments'.rows[id] = investments.rows[id]
        /\ (response'.page = "edit_investment" /\ response'.investment # None) =>
              response'.investment[1].user_id = session[1]
      ]_vars

(***************************************************************************)
(* C19. In a ledger where no SELL exceeds the open quantity,               *)
(* get_realized_gains() = (total value of the SELLs) - (total value of the *)
(* BUYs) + (sum of total_cost over get_holdings()).                        *)
(***************************************************************************)
RECURSIVE SumValueOfType(_, _)
SumValueOfType(txs, type) ==
    IF txs = <<>> THEN Zero
    ELSE LET rest == SumValueOfType(Front(txs), type) IN
         IF Last(txs).transaction_type = type
         THEN RAdd(rest, RMul(Last(txs).quantity, Last(txs).price))
         ELSE rest

C19_GainsBalanceTheCostBasis ==
    (ValidLedger(transactions) /\ NoOverSell(transactions)) =>
        GetRealizedGains(transactions) =
            RAdd(RSub(SumValueOfType(transactions, "SELL"),
                      SumValueOfType(transactions, "BUY")),
                 GetPortfolioSummary(name, transactions).total_cost_basis)

\* two buys at different prices and a sale of part of them at a gain or loss
C19_Witness ==
    /\ ValidLedger(transactions) /\ NoOverSell(transactions)
    /\ Len(transactions) = 3
    /\ transactions[1].transaction_type = "BUY"
    /\ transactions[2].transaction_type = "BUY"
    /\ transactions[1].price # transactions[2].price
    /\ transactions[3].transaction_type = "SELL"
    /\ GetRealizedGains(transactions) # Zero
    /\ GetPortfolioSummary(name, transactions).total_cost_basis # Zero

(***************************************************************************)
(* C21. In a ledger where no SELL exceeds the open quantity, a ticker      *)
(* whose replayed open quantity is 0 has open cost basis 0, so that after  *)
(* a full sell-out get_holdings() reports for the ticker what it reports   *)
(* for the transactions made after the sell-out alone.                     *)
(***************************************************************************)
Suffix(txs, n) == SubSeq(txs, n + 1, Len(txs))

\* the replay of get_holdings has the ticker k at quantity 0 after n transactions
SoldOutAt(txs, n, k) == Entry(HoldingsData(Prefix(txs, n)), k).quantity = Zero

\* get_holdings() of two ledgers reports the same for the ticker k
SameHolding(txs, other, k) ==
    LET a == GetHoldings(txs)
        b == GetHoldings(other)
    IN  /\ k \in DOMAIN a <=> k \in DOMAIN b
        /\ k \in DOMAIN a => a[k] = b[k]

C21_SellOutForgetsTheCost ==
    (ValidLedger(transactions) /\ NoOverSell(transactions)) =>
        \A k \in {Upper(x) : x \in SellOutTickerInputs} :
            \A n \in 0..Len(transactions) :
                SoldOutAt(transactions, n, k) =>
                    /\ OpenQuantity(Prefix(transactions, n), k) = Zero
                    /\ Entry(HoldingsData(Prefix(transactions, n)), k).total_cost = Zero
                    /\ SameHolding(transactions, Suffix(transactions, n), k)

\* a purchase sold out in full, then two purchases at prices of which one
\* differs from the price paid before the sell-out
C21_Witness ==
    /\ ValidLedger(transactions) /\ NoOverSell(transactions)
    /\ Len(transactions) = 4
    /\ \A i \in 1..4 : transactions[i].ticker = transactions[1].ticker
    /\ transactions[1].transaction_type = "BUY"
    /\ transactions[2].transaction_type = "SELL"
    /\ SoldOutAt(transactions, 2, transactions[1].ticker)
    /\ transactions[3].transaction_type = "BUY"
    /\ transactions[4].transaction_type = "BUY"
    /\ transactions[3].price # transactions[4].price
    /\ GetHoldings(transactions)[transactions[1].ticker].average_cost[2] # 1

====
